---- MODULE Spec2Model ----
(***************************************************************************)
(* dotlocalctl: the record registry persisted in ./dotlocal.json, the CLI  *)
(* commands that mutate it, and the daemon that supervises the reverse     *)
(* proxy and one name-advertisement helper per domain.                     *)
(*                                                                         *)
(* The repository holds the program twice: the crate of command.rs,        *)
(* config.rs, helpers.rs and record.rs (specification Spec / SpecDaemon),  *)
(* and the single-file program main.rs (definitions prefixed main_,        *)
(* specification SpecMain).                                                *)
(***************************************************************************)
EXTENDS Integers, Sequences, FiniteSets, TLC

(***************************************************************************)
(* Text.  A string is a sequence of chunks; the characters ':', '/', ' '   *)
(* and '-' and every digit are chunks of their own, any other chunk is a   *)
(* run of characters that holds none of them.                              *)
(***************************************************************************)
RECURSIVE Join(_)
Join(s) == IF s = <<>> THEN "" ELSE Head(s) \o Join(Tail(s))

\* position of the first occurrence of chunk c in s, 0 when there is none
RECURSIVE IndexOf(_, _, _)
IndexOf(s, c, i) ==
    IF i > Len(s) THEN 0
    ELSE IF s[i] = c THEN i
    ELSE IndexOf(s, c, i + 1)

\* str::split(c): every piece between occurrences of c
RECURSIVE Split(_, _)
Split(s, c) ==
    LET i == IndexOf(s, c, 1)
    IN  IF i = 0 THEN <<s>>
        ELSE <<SubSeq(s, 1, i - 1)>> \o Split(SubSeq(s, i + 1, Len(s)), c)

\* str::splitn(2, c): split at the first occurrence of c only
SplitN2(s, c) ==
    LET i == IndexOf(s, c, 1)
    IN  IF i = 0 THEN <<s>>
        ELSE <<SubSeq(s, 1, i - 1), SubSeq(s, i + 1, Len(s))>>

\* str::trim(): strip leading and trailing whitespace
RECURSIVE TrimStart(_)
TrimStart(s) ==
    IF s # <<>> /\ Head(s) = " " THEN TrimStart(Tail(s)) ELSE s

RECURSIVE TrimEnd(_)
TrimEnd(s) ==
    IF s # <<>> /\ s[Len(s)] = " " THEN TrimEnd(SubSeq(s, 1, Len(s) - 1)) ELSE s

Trim(s) == TrimEnd(TrimStart(s))

Digits == {"0", "1", "2", "3", "4", "5", "6", "7", "8", "9"}

DigitVal(c) ==
    CASE c = "0" -> 0 [] c = "1" -> 1 [] c = "2" -> 2 [] c = "3" -> 3
      [] c = "4" -> 4 [] c = "5" -> 5 [] c = "6" -> 6 [] c = "7" -> 7
      [] c = "8" -> 8 [] c = "9" -> 9

RECURSIVE DigitsVal(_, _)
DigitsVal(s, acc) ==
    IF s = <<>> THEN acc ELSE DigitsVal(Tail(s), acc * 10 + DigitVal(Head(s)))

I32Max == 2147483647

RECURSIVE StripZeros(_)
StripZeros(s) ==
    IF Len(s) > 1 /\ Head(s) = "0" THEN StripZeros(Tail(s)) ELSE s

\* the digits d, leading zeros stripped, exceed the magnitude of i32::MAX
Overflows(d) ==
    \/ Len(d) > 10
    \/ /\ Len(d) = 10
       /\ LET hi == DigitsVal(SubSeq(d, 1, 9), 0)
              lo == DigitVal(d[10])
          IN  hi > I32Max \div 10 \/ (hi = I32Max \div 10 /\ lo > 7)

\* str::parse::<i32>(): an optional sign, then one or more digits, in range
\* (i32::MIN, which the model checker's integers cannot hold, counts as out of range)
ParseI32(s) ==
    LET signed   == s # <<>> /\ Head(s) \in {"-", "+"}
        negative == signed /\ Head(s) = "-"
        body     == IF signed THEN Tail(s) ELSE s
        digits   == StripZeros(body)
    IN  IF body = <<>> \/ \E i \in 1..Len(body) : body[i] \notin Digits
        THEN [ok |-> FALSE, val |-> 0]
        ELSE IF Overflows(digits)
        THEN [ok |-> FALSE, val |-> 0]
        ELSE [ok |-> TRUE,
              val |-> IF negative THEN 0 - DigitsVal(digits, 0)
                      ELSE DigitsVal(digits, 0)]

(***************************************************************************)
(* Entries of the command line.                                            *)
(***************************************************************************)
NoPath == [none |-> TRUE]

\* Option<&str> of the path remainder
SomePath(p) == [none |-> FALSE, rest |-> p]

\* the entry is split at every ':'; the first piece is the url, the second
\* the port text; a missing second piece or a port text that is no i32
\* panics; the url is split once at its first '/'
parse_proxy_entry(entry) ==
    LET parts     == Split(entry, ":")
        url       == parts[1]
        port      == IF Len(parts) >= 2 THEN ParseI32(Trim(parts[2]))
                     ELSE [ok |-> FALSE, val |-> 0]
        url_parts == SplitN2(url, "/")
    IN  [panic  |-> ~port.ok,
         domain |-> Join(url_parts[1]),
         port   |-> port.val,
         path   |-> IF Len(url_parts) >= 2 THEN SomePath(Join(url_parts[2]))
                    ELSE NoPath]

(***************************************************************************)
(* Records and the configuration.                                          *)
(***************************************************************************)
\* struct Record
Record(domain, paths, port) == [domain |-> domain, paths |-> paths, port |-> port]

\* HashMap::new()
EmptyMap == [d \in {} |-> 0]

\* HashMap::insert
Insert(m, k, v) == [x \in DOMAIN m \cup {k} |-> IF x = k THEN v ELSE m[x]]

\* HashMap::remove
Remove(m, k) == [x \in DOMAIN m \ {k} |-> m[x]]

\* struct DotLocalConfig
DotLocalConfig(records, https, lan) ==
    [records |-> records, automatic_https_redirect |-> https, lan_enabled |-> lan]

\* DotLocalConfig::new
new == DotLocalConfig(EmptyMap, TRUE, TRUE)

\* ./dotlocal.json does not exist
NoFile == [absent |-> TRUE]

\* serde_json::to_string_pretty: the document written by save
Serialize(config) ==
    [absent  |-> FALSE,
     records |-> [d \in DOMAIN config.records |->
                    [domain |-> config.records[d].domain,
                     paths  |-> [i \in 1..Len(config.records[d].paths) |->
                                   <<config.records[d].paths[i][1],
                                     config.records[d].paths[i][2]>>],
                     port   |-> config.records[d].port]],
     automatic_https_redirect |-> config.automatic_https_redirect,
     lan_enabled              |-> config.lan_enabled]

\* serde_json::from_str of a document written by save
Deserialize(doc) ==
    DotLocalConfig(
        [d \in DOMAIN doc.records |->
            Record(doc.records[d].domain,
                   [i \in 1..Len(doc.records[d].paths) |->
                       <<doc.records[d].paths[i][1], doc.records[d].paths[i][2]>>],
                   doc.records[d].port)],
        doc.automatic_https_redirect,
        doc.lan_enabled)

\* DotLocalConfig::get: the defaults when the file is absent
get(f) == IF f.absent THEN new ELSE Deserialize(f)

\* DotLocalConfig::save
save(config) == Serialize(config)

(***************************************************************************)
(* config.rs: the registry methods of DotLocalConfig.                      *)
(***************************************************************************)
\* add_existing with `config.port += port` in place of the assignment
add_existing_accumulates(config, port, paths) ==
    IF paths = <<>>
    THEN [config EXCEPT !.port = @ + port]
    ELSE [config EXCEPT !.paths =
             SelectSeq(config.paths, LAMBDA it : it[1] # paths[1][1]) \o paths]

\* add_existing without the retain that drops the previous entry of the path
add_existing_keeps_old(config, port, paths) ==
    IF paths = <<>>
    THEN [config EXCEPT !.port = port]
    ELSE [config EXCEPT !.paths = config.paths \o paths]

\* add_existing giving the record the port of the match arm also for a path
add_existing_resets_port(config, port, paths) ==
    IF paths = <<>>
    THEN [config EXCEPT !.port = port]
    ELSE [config EXCEPT !.port = port,
                        !.paths = SelectSeq(config.paths,
                                      LAMBDA it : it[1] # paths[1][1]) \o paths]

\* add_proxies, the arm for a domain that has a record (config.rs:72-81)
add_existing(config, port, paths) ==
    IF paths = <<>>
    THEN [config EXCEPT !.port = port]
    ELSE [config EXCEPT !.paths =
             SelectSeq(config.paths, LAMBDA it : it[1] # paths[1][1]) \o paths]

\* add_proxies, the body of the loop for one parsed entry (config.rs:63-92)
add_entry_keeps_url(records, domain, entry_port, path) ==
    LET port  == IF path.none THEN entry_port ELSE -1
        paths == IF path.none THEN <<>> ELSE <<<<"/" \o path.rest, entry_port>>>>
        url   == IF path.none THEN domain ELSE domain \o "/" \o path.rest
    IN  IF domain \in DOMAIN records
        THEN [records EXCEPT ![domain] = add_existing(records[domain], port, paths)]
        ELSE Insert(records, domain, Record(url, paths, port))

add_entry(records, domain, entry_port, path) ==
    LET port  == IF path.none THEN entry_port ELSE -1
        paths == IF path.none THEN <<>> ELSE <<<<"/" \o path.rest, entry_port>>>>
    IN  IF domain \in DOMAIN records
        THEN [records EXCEPT ![domain] = add_existing(records[domain], port, paths)]
        ELSE Insert(records, domain, Record(domain, paths, port))

\* add_proxies, the loop over the entries; a panic leaves the loop
RECURSIVE add_loop(_, _)
add_loop(records, entries) ==
    IF entries = <<>> THEN [panic |-> FALSE, records |-> records]
    ELSE LET p == parse_proxy_entry(Head(entries))
         IN  IF p.panic THEN [panic |-> TRUE, records |-> records]
             ELSE add_loop(add_entry(records, p.domain, p.port, p.path),
                           Tail(entries))

\* add_proxies saving what the loop has built when an entry panics
add_proxies_saves_partial(self, f, entries) ==
    LET r == add_loop(self.records, entries)
    IN  [panic |-> r.panic, file |-> save([self EXCEPT !.records = r.records])]

\* DotLocalConfig::add_proxies(&mut self, entries): the file it leaves
add_proxies(self, f, entries) ==
    LET r == add_loop(self.records, entries)
    IN  IF r.panic THEN [panic |-> TRUE, file |-> f]
        ELSE [panic |-> FALSE, file |-> save([self EXCEPT !.records = r.records])]

\* remove_proxies, the arm for an entry with a path (config.rs:105-112)
remove_path(records, domain, port, rest) ==
    LET path  == "/" \o rest
        paths == SelectSeq(records[domain].paths,
                        LAMBDA it : it[1] # path \/ it[2] # port)
    IN  IF paths = <<>> /\ records[domain].port = -1
        THEN Remove(records, domain)
        ELSE [records EXCEPT ![domain].paths = paths]

\* remove_proxies, the arm for an entry without a path (config.rs:114-122)
remove_default(records, domain, port) ==
    IF port = records[domain].port
    THEN IF records[domain].paths = <<>>
         THEN Remove(records, domain)
         ELSE [records EXCEPT ![domain].port = -1]
    ELSE records

\* remove_proxies, the body of the loop for one parsed entry
remove_entry(records, domain, port, path) ==
    IF domain \in DOMAIN records
    THEN IF path.none THEN remove_default(records, domain, port)
         ELSE remove_path(records, domain, port, path.rest)
    ELSE records

\* remove_proxies, the loop over the entries; a panic leaves the loop
RECURSIVE remove_loop(_, _)
remove_loop(records, entries) ==
    IF entries = <<>> THEN [panic |-> FALSE, records |-> records]
    ELSE LET p == parse_proxy_entry(Head(entries))
         IN  IF p.panic THEN [panic |-> TRUE, records |-> records]
             ELSE remove_loop(remove_entry(records, p.domain, p.port, p.path),
                              Tail(entries))

\* remove_proxies dropping the record of every domain it is given
remove_proxies_drops_named(self, f, entries) ==
    LET config == get(f)
        r      == remove_loop(config.records, entries)
        named  == {parse_proxy_entry(entries[i]).domain : i \in 1..Len(entries)}
    IN  IF r.panic THEN [panic |-> TRUE, file |-> f]
        ELSE [panic |-> FALSE,
              file |-> save([self EXCEPT !.records =
                          [d \in DOMAIN self.records \ named |-> self.records[d]]])]

\* DotLocalConfig::remove_proxies(&self, entries): the loop works on a
\* configuration loaded afresh into a local, and self is what is saved
remove_proxies(self, f, entries) ==
    LET config == get(f)
        r      == remove_loop(config.records, entries)
    IN  IF r.panic THEN [panic |-> TRUE, file |-> f]
        ELSE [panic |-> FALSE, file |-> save(self)]

\* DotLocalConfig::remove_all_proxies(&self): the local is emptied, self saved
remove_all_proxies(self, f) ==
    LET config == [get(f) EXCEPT !.records = EmptyMap]
    IN  save(self)

(***************************************************************************)
(* main.rs: the same commands as free functions.                           *)
(***************************************************************************)
\* fn add_proxies(entries)
main_add_proxies(f, entries) ==
    LET config == get(f)
        r      == add_loop(config.records, entries)
    IN  IF r.panic THEN [panic |-> TRUE, file |-> f]
        ELSE [panic |-> FALSE, file |-> save([config EXCEPT !.records = r.records])]

\* fn remove_proxies(entries)
main_remove_proxies(f, entries) ==
    LET config == get(f)
        r      == remove_loop(config.records, entries)
    IN  IF r.panic THEN [panic |-> TRUE, file |-> f]
        ELSE [panic |-> FALSE, file |-> save([config EXCEPT !.records = r.records])]

\* fn remove_all_proxies()
main_remove_all_proxies(f) ==
    save([get(f) EXCEPT !.records = EmptyMap])
(***************************************************************************)
(* record.rs and helpers.rs: the generated Caddyfile and the helpers.      *)
(* A text file is the sequence of its lines, each ended by a newline.      *)
(* What the environment decides is an argument: net says whether           *)
(* local_ip() finds an address, order is the order in which the HashMap    *)
(* of the loaded configuration yields its keys, spawn_ok is the set of     *)
(* domains whose helper can be spawned.                                    *)
(***************************************************************************)
LanIp == "192.168.1.10"
Loopback == "127.0.0.1"

\* get_ip: local_ip().unwrap() panics when the host has no address
get_ip(lan_enabled, net) ==
    IF lan_enabled
    THEN IF net THEN [panic |-> FALSE, ip |-> LanIp]
         ELSE [panic |-> TRUE, ip |-> ""]
    ELSE [panic |-> FALSE, ip |-> Loopback]

\* Record::entry: the lines of the stanza of one record
entry(record, automatic_https_redirect, lan_enabled, net) ==
    LET ip          == get_ip(lan_enabled, net)
        domain_line == IF automatic_https_redirect
                       THEN record.domain \o " {"
                       ELSE "http://" \o record.domain \o " https://"
                            \o record.domain \o " {"
        port_entry  == IF record.port > -1
                       THEN <<"\treverse_proxy " \o ip.ip \o ":"
                              \o ToString(record.port)>>
                       ELSE <<>>
        path_entry  == [i \in 1..Len(record.paths) |->
                          "\treverse_proxy " \o record.paths[i][1] \o " "
                          \o ip.ip \o ":" \o ToString(record.paths[i][2])]
    IN  [panic |-> ip.panic,
         lines |-> <<domain_line>> \o port_entry \o path_entry \o <<"}">>]

\* update_caddyfile, the loop over the records in the order of the HashMap
RECURSIVE caddyfile_loop(_, _, _)
caddyfile_loop(config, order, net) ==
    IF order = <<>> THEN [panic |-> FALSE, lines |-> <<>>]
    ELSE LET e    == entry(config.records[Head(order)],
                           config.automatic_https_redirect,
                           config.lan_enabled, net)
             rest == caddyfile_loop(config, Tail(order), net)
         IN  IF e.panic THEN [panic |-> TRUE, lines |-> <<>>]
             ELSE [panic |-> rest.panic, lines |-> e.lines \o rest.lines]

\* update_caddyfile without the made_entry test: no record, no line
update_caddyfile_no_blank(config, order, net) ==
    LET r == caddyfile_loop(config, order, net)
    IN  IF r.panic THEN [panic |-> TRUE, content |-> <<>>]
        ELSE [panic |-> FALSE, content |-> r.lines]

\* update_caddyfile: the content written to ./Caddyfile; a single empty line
\* when there is no record; nothing is written when building the text panics
update_caddyfile(config, order, net) ==
    LET r == caddyfile_loop(config, order, net)
    IN  IF r.panic THEN [panic |-> TRUE, content |-> <<>>]
        ELSE IF order = <<>> THEN [panic |-> FALSE, content |-> <<"">>]
        ELSE [panic |-> FALSE, content |-> r.lines]

\* a Child: the helper process pid advertises domain at ip
Child(pid, domain, ip) == [pid |-> pid, domain |-> domain, ip |-> ip]

\* spawn_dns_proxies, the loop over records_list(): a domain already added is
\* skipped, a failed spawn is skipped, a spawned helper takes the next pid
RECURSIVE spawn_loop(_, _, _, _, _, _)
spawn_loop(config, order, spawn_ok, ip, added, pid) ==
    IF order = <<>> THEN <<>>
    ELSE LET record == config.records[Head(order)]
         IN  IF record.domain \in added
             THEN spawn_loop(config, Tail(order), spawn_ok, ip, added, pid)
             ELSE IF Head(order) \in spawn_ok
             THEN <<Child(pid, record.domain, ip)>>
                  \o spawn_loop(config, Tail(order), spawn_ok, ip,
                                added \cup {record.domain}, pid + 1)
             ELSE spawn_loop(config, Tail(order), spawn_ok, ip, added, pid)

\* spawn_dns_proxies with the spawn result unwrapped: a failed spawn panics
spawn_dns_proxies_fatal(config, order, spawn_ok, net, pid) ==
    LET ip == get_ip(config.lan_enabled, net)
    IN  IF ip.panic \/ \E i \in 1..Len(order) : order[i] \notin spawn_ok
        THEN [panic |-> TRUE, processes |-> <<>>]
        ELSE [panic |-> FALSE,
              processes |-> spawn_loop(config, order, spawn_ok, ip.ip, {}, pid)]

\* spawn_dns_proxies: the handles of the helpers spawned
spawn_dns_proxies(config, order, spawn_ok, net, pid) ==
    LET ip == get_ip(config.lan_enabled, net)
    IN  IF ip.panic THEN [panic |-> TRUE, processes |-> <<>>]
        ELSE [panic |-> FALSE,
              processes |-> spawn_loop(config, order, spawn_ok, ip.ip, {}, pid)]

\* the pids of a Vec<Child>
Pids(processes) == {processes[i].pid : i \in 1..Len(processes)}

\* the permutations of a set, as sequences
Perms(S) ==
    {o \in [1..Cardinality(S) -> S] :
        \A i, j \in 1..Cardinality(S) : o[i] = o[j] => i = j}

(***************************************************************************)
(* State.                                                                  *)
(***************************************************************************)
VARIABLES
    file,       \* ./dotlocal.json: NoFile or the document last saved
    cli,        \* the CLI process: Idle, or the command it has run
    daemon,     \* the `run` process: "Off", "Running", "Stopped", "Aborted";
                \* where its steps are told apart also "Installed" (the
                \* interrupt handler is set), "Listening" (the server is
                \* bound), "Handling" (a request is taken, not yet handled)
    caddyfile,  \* ./Caddyfile: NoFile or its lines
    caddy,      \* the proxy process: "off" or "running"
    held,       \* proxy_processes, the Vec<Child> of start_server
    killed,     \* the pids of the helpers that were sent kill
    next_pid,   \* the pid the next spawned helper takes
    pending,    \* the number of requests the listener holds
    last,       \* what the daemon did last: Nothing, or the request it
                \* took, the response it gave, the steps it went through and
                \* the requests it left in the listener when the process ended
    signal,     \* the interrupt handler thread: NoSignal, or what became of
                \* the GET /quit it sent and how many requests are before it
    invocations,\* CLI processes whose load and save are told apart: for
                \* each, where it is, its entries, the file it loaded, the
                \* processes that had saved by then, its turn among the saves
    rival       \* a second `run` process: where it is and the helpers it holds

dvars == <<daemon, caddyfile, caddy, held, killed, next_pid, pending, last,
          signal, invocations, rival>>

vars == <<file, cli, daemon, caddyfile, caddy, held, killed, next_pid,
          pending, last, signal, invocations, rival>>

\* the CLI processes that run side by side
MaxProcs == 2
Procs == 1..MaxProcs

\* a CLI process that has not loaded the file
NotRun == [pc |-> "idle", proxies |-> <<>>, seen |-> NoFile, after |-> {},
           turn |-> 0]

\* no second `run`
NoRival == [state |-> "Off", held |-> <<>>]

\* no interrupt was delivered
NoSignal == [state |-> "none", ahead |-> 0]

\* no CLI process is running
Idle == [op |-> "idle"]

\* the daemon has done nothing yet
Nothing == [request |-> [method |-> "", url |-> ""], response |-> "",
            steps |-> <<>>, undispatched |-> 0]

(***************************************************************************)
(* Inputs.                                                                 *)
(***************************************************************************)
MaxBatch == 2

\* entries given to add and remove; the last one has no ':'
Entries ==
    { <<"a.local", ":", "1">>,
      <<"a.local", ":", "-", "1">>,
      <<"a.local", "/", "x", ":", "1">>,
      <<"a.local", "/", "x", ":", "2">>,
      <<"a.local", "/", "y", ":", "2">>,
      <<"b.local", ":", "1">>,
      <<"b.local", "/", "x", ":", "1">>,
      <<"a.local", "/", "x">>,
      <<"a.local", ":", "x">> }

Batches == UNION {[1..n -> Entries] : n \in 0..MaxBatch}

(***************************************************************************)
(* command.rs: the CLI commands on the configuration.                      *)
(***************************************************************************)
\* Commands::add_proxies
CmdAdd(B) ==
    /\ cli = Idle
    /\ UNCHANGED dvars
    /\ \E proxies \in B :
         LET config == get(file)
             r      == add_proxies(config, file, proxies)
         IN  /\ file' = r.file
             /\ cli' = [op |-> "add", proxies |-> proxies, pre |-> file,
                        panic |-> r.panic]

\* Commands::remove_proxies
CmdRemove(B) ==
    /\ cli = Idle
    /\ UNCHANGED dvars
    /\ \E proxies \in B :
         LET config == get(file)
             r      == remove_proxies(config, file, proxies)
         IN  /\ file' = r.file
             /\ cli' = [op |-> "remove", proxies |-> proxies, pre |-> file,
                        panic |-> r.panic]

\* Commands::remove_all_proxies
CmdRemoveAll ==
    /\ cli = Idle
    /\ UNCHANGED dvars
    /\ LET config == get(file)
       IN  file' = remove_all_proxies(config, file)
    /\ cli' = [op |-> "remove-all", proxies |-> <<>>, pre |-> file,
               panic |-> FALSE]

\* Commands::change_access
CmdAccess ==
    /\ cli = Idle
    /\ UNCHANGED dvars
    /\ \E lan \in BOOLEAN :
         /\ file' = save([get(file) EXCEPT !.lan_enabled = lan])
         /\ cli' = [op |-> "access", proxies |-> <<>>, pre |-> file,
                    panic |-> FALSE]

\* Commands::change_https
CmdHttps ==
    /\ cli = Idle
    /\ UNCHANGED dvars
    /\ \E auto \in BOOLEAN :
         /\ file' = save([get(file) EXCEPT !.automatic_https_redirect = auto])
         /\ cli' = [op |-> "https", proxies |-> <<>>, pre |-> file,
                    panic |-> FALSE]

\* the CLI process ends (Commands::exec returns to main, or the panic unwinds)
CmdExit ==
    /\ cli # Idle
    /\ cli' = Idle
    /\ UNCHANGED <<file, dvars>>

(***************************************************************************)
(* command.rs: the daemon.                                                 *)
(***************************************************************************)
MaxPid == 3
MaxQueue == 2

\* the content of a written text file
Written(lines) == [absent |-> FALSE, lines |-> lines]

\* what a handler leaves behind
Outcome(panic, cfile, proxy, processes, kl, steps) ==
    [panic |-> panic, caddyfile |-> cfile, caddy |-> proxy,
     held |-> processes, killed |-> kl, steps |-> steps]

\* stop_all_dns_proxies clearing the Vec without a kill
stop_all_dns_proxies_forgets(processes, kl) ==
    [processes |-> <<>>, killed |-> kl]

\* stop_all_dns_proxies: every handle is sent kill, the Vec is cleared
stop_all_dns_proxies(processes, kl) ==
    [processes |-> <<>>, killed |-> kl \cup Pids(processes)]

\* start_proxy with the helpers spawned before `caddy start`
start_proxy_spawns_first(f, cfile, kl, order, spawn_ok, net, caddy_ok, pid) ==
    LET config == get(f)
        cf     == update_caddyfile(config, order, net)
        sp     == spawn_dns_proxies(config, order, spawn_ok, net, pid)
    IN  IF cf.panic \/ sp.panic
        THEN Outcome(TRUE, cfile, "off", <<>>, kl, <<>>)
        ELSE IF ~caddy_ok
        THEN Outcome(TRUE, Written(cf.content), "off", sp.processes, kl,
                     <<"write Caddyfile", "spawn helpers">>)
        ELSE Outcome(FALSE, Written(cf.content), "running", sp.processes, kl,
                     <<"write Caddyfile", "spawn helpers", "caddy start">>)

\* Commands::start_proxy; `caddy start` is spawned with expect
start_proxy(f, cfile, kl, order, spawn_ok, net, caddy_ok, pid) ==
    LET config == get(f)
        cf     == update_caddyfile(config, order, net)
        sp     == spawn_dns_proxies(config, order, spawn_ok, net, pid)
    IN  IF cf.panic
        THEN Outcome(TRUE, cfile, "off", <<>>, kl, <<>>)
        ELSE IF ~caddy_ok
        THEN Outcome(TRUE, Written(cf.content), "off", <<>>, kl,
                     <<"write Caddyfile">>)
        ELSE IF sp.panic
        THEN Outcome(TRUE, Written(cf.content), "running", <<>>, kl,
                     <<"write Caddyfile", "caddy start">>)
        ELSE Outcome(FALSE, Written(cf.content), "running", sp.processes, kl,
                     <<"write Caddyfile", "caddy start", "spawn helpers">>)

\* Commands::restart_proxy; `caddy reload` is spawned with expect
restart_proxy(processes, config, cfile, proxy, kl, order, spawn_ok, net, caddy_ok, pid) ==
    LET cf      == update_caddyfile(config, order, net)
        stopped == stop_all_dns_proxies(processes, kl)
        sp      == spawn_dns_proxies(config, order, spawn_ok, net, pid)
    IN  IF cf.panic
        THEN Outcome(TRUE, cfile, proxy, processes, kl, <<>>)
        ELSE IF ~caddy_ok
        THEN Outcome(TRUE, Written(cf.content), proxy, stopped.processes,
                     stopped.killed, <<"write Caddyfile", "kill helpers">>)
        ELSE IF sp.panic
        THEN Outcome(TRUE, Written(cf.content), proxy, stopped.processes,
                     stopped.killed,
                     <<"write Caddyfile", "kill helpers", "caddy reload">>)
        ELSE Outcome(FALSE, Written(cf.content), proxy,
                     stopped.processes \o sp.processes, stopped.killed,
                     <<"write Caddyfile", "kill helpers", "caddy reload",
                       "spawn helpers">>)

\* quit without the call of stop_all_dns_proxies
quit_keeps_helpers(processes, cfile, proxy, kl, caddy_ok) ==
    IF ~caddy_ok
    THEN [panic |-> TRUE, caddyfile |-> cfile, caddy |-> proxy,
          held |-> processes, killed |-> kl, steps |-> <<>>]
    ELSE [panic |-> FALSE, caddyfile |-> cfile, caddy |-> "off",
          held |-> processes, killed |-> kl, steps |-> <<"caddy stop">>]

\* Commands::quit; `caddy stop` is run with status and expect
quit(processes, cfile, proxy, kl, caddy_ok) ==
    LET stopped == stop_all_dns_proxies(processes, kl)
    IN  IF ~caddy_ok
        THEN Outcome(TRUE, cfile, proxy, stopped.processes, stopped.killed,
                     <<"kill helpers">>)
        ELSE Outcome(FALSE, cfile, "off", stopped.processes, stopped.killed,
                     <<"kill helpers", "caddy stop">>)

\* the requests sent to the control address
Requests == [method : {"GET", "POST"}, url : {"/restart", "/quit", "/"}]

\* is_get without the comparison: every method is let through
is_get_any(request) == TRUE

\* start_server: `request.method() != &Method::Get` is answered 405
is_get(request) == request.method = "GET"

\* what the daemon did last
Did(request, response, steps, undispatched) ==
    [request |-> request, response |-> response, steps |-> steps,
     undispatched |-> undispatched]

\* Commands::run and start_server up to the loop: the listener is bound and
\* start_proxy fills proxy_processes
Run ==
    /\ daemon = "Off"
    /\ \E order \in Perms(DOMAIN get(file).records),
          spawn_ok \in SUBSET DOMAIN get(file).records,
          net \in BOOLEAN, caddy_ok \in BOOLEAN :
         LET out == start_proxy(file, caddyfile, killed, order, spawn_ok, net,
                                caddy_ok, next_pid)
         IN  /\ next_pid + Len(out.held) - 1 <= MaxPid
             /\ daemon' = IF out.panic THEN "Aborted" ELSE "Running"
             /\ caddyfile' = out.caddyfile
             /\ caddy' = out.caddy
             /\ held' = out.held
             /\ next_pid' = next_pid + Len(out.held)
             /\ last' = Did([method |-> "", url |-> "run"], "", out.steps, 0)
    /\ UNCHANGED <<file, cli, invocations, rival,
                   killed, pending, signal>>

\* a client connects to the control address; what it asks for is seen when
\* the loop takes its request
Arrive ==
    /\ daemon = "Running"
    /\ pending < MaxQueue
    /\ pending' = pending + 1
    /\ UNCHANGED <<file, cli, invocations, rival,
                   daemon, caddyfile, caddy, held, killed, next_pid,
                   last, signal>>

\* start_server, the loop body for a request that is not a GET: 405, continue
ServeNotGet(request) ==
    /\ ~is_get(request)
    /\ pending' = pending - 1
    /\ last' = Did(request, "405", <<>>, 0)
    /\ UNCHANGED <<file, cli, invocations, rival,
                   daemon, caddyfile, caddy, held, killed, next_pid,
                   signal>>

\* start_server, the loop body for GET /restart: the configuration is loaded,
\* restart_proxy runs, "ok" is responded; a panic ends the process and drops
\* the server with the requests the listener still holds
ServeRestart(request) ==
    /\ is_get(request)
    /\ request.url = "/restart"
    /\ \E order \in Perms(DOMAIN get(file).records),
          spawn_ok \in SUBSET DOMAIN get(file).records,
          net \in BOOLEAN, caddy_ok \in BOOLEAN :
         LET config == get(file)
             out    == restart_proxy(held, config, caddyfile, caddy, killed,
                                     order, spawn_ok, net, caddy_ok, next_pid)
             fresh  == Cardinality(Pids(out.held) \ Pids(held))
         IN  /\ next_pid + fresh - 1 <= MaxPid
             /\ daemon' = IF out.panic THEN "Aborted" ELSE "Running"
             /\ caddyfile' = out.caddyfile
             /\ caddy' = out.caddy
             /\ held' = out.held
             /\ killed' = out.killed
             /\ next_pid' = next_pid + fresh
             /\ last' = Did(request, IF out.panic THEN "" ELSE "200 ok",
                            out.steps, IF out.panic THEN pending - 1 ELSE 0)
             /\ pending' = IF out.panic THEN 0 ELSE pending - 1
    /\ UNCHANGED <<file, cli, invocations, rival,
                   signal>>

\* start_server, the loop body for GET /quit: quit runs and the loop is left
\* by break, before the respond at the end of the body; the server is dropped
\* and with it the requests the listener still holds
ServeQuit(request) ==
    /\ is_get(request)
    /\ request.url = "/quit"
    /\ \E caddy_ok \in BOOLEAN :
         LET out == quit(held, caddyfile, caddy, killed, caddy_ok)
         IN  /\ daemon' = IF out.panic THEN "Aborted" ELSE "Stopped"
             /\ caddy' = out.caddy
             /\ held' = out.held
             /\ killed' = out.killed
             /\ last' = Did(request, "", out.steps, pending - 1)
    /\ pending' = 0
    /\ UNCHANGED <<file, cli, invocations, rival,
                   caddyfile, next_pid, signal>>

\* start_server, the loop body for a GET of any other url: "ok" is responded
ServeOther(request) ==
    /\ is_get(request)
    /\ request.url \notin {"/restart", "/quit"}
    /\ pending' = pending - 1
    /\ last' = Did(request, "200 ok", <<>>, 0)
    /\ UNCHANGED <<file, cli, invocations, rival,
                   daemon, caddyfile, caddy, held, killed, next_pid,
                   signal>>

\* start_server, one turn of the loop over server.incoming_requests()
Serve ==
    /\ daemon = "Running"
    /\ pending > 0
    /\ \E request \in Requests :
         \/ ServeNotGet(request)
         \/ ServeRestart(request)
         \/ ServeQuit(request)
         \/ ServeOther(request)

\* entries given to add and remove while the daemon is looked at
DaemonBatches ==
    { << <<"a.local", ":", "1">> >>, << <<"b.local", ":", "1">> >> }

Init ==
    /\ file = NoFile
    /\ cli = Idle
    /\ daemon = "Off"
    /\ caddyfile = NoFile
    /\ caddy = "off"
    /\ held = <<>>
    /\ killed = {}
    /\ next_pid = 1
    /\ pending = 0
    /\ last = Nothing
    /\ signal = NoSignal
    /\ invocations = [p \in Procs |-> NotRun]
    /\ rival = NoRival

Next ==
    \/ CmdAdd(Batches)
    \/ CmdRemove(Batches)
    \/ CmdRemoveAll
    \/ CmdAccess
    \/ CmdHttps
    \/ CmdExit

Spec == Init /\ [][Next]_vars

NextDaemon ==
    \/ Run
    \/ Arrive
    \/ Serve
    \/ CmdAdd(DaemonBatches)
    \/ CmdRemove(DaemonBatches)
    \/ CmdExit

SpecDaemon == Init /\ [][NextDaemon]_vars

\* entries given to add before the daemon is started: default ports of
\* either sign, paths, a path of two segments, a second ':'
GenBatches ==
    { << <<"a.local", ":", "1">> >>,
      << <<"a.local", ":", "-", "2">> >>,
      << <<"a.local", "/", "x", ":", "1">> >>,
      << <<"a.local", "/", "y", ":", "2">> >>,
      << <<"a.local", "/", "x", "/", "y", ":", "1">> >>,
      << <<"a.local", ":", "1", ":", "2">> >> }

NextGen ==
    \/ CmdAdd(GenBatches)
    \/ CmdExit
    \/ Run

SpecGen == Init /\ [][NextGen]_vars

(***************************************************************************)
(* command.rs: the threads of the daemon, step by step.  The main thread   *)
(* sets the interrupt handler, binds the server, starts the proxy and the  *)
(* helpers and then loops: it takes a request and handles it.  The handler *)
(* thread of ctrlc runs Commands::stop when the interrupt is delivered.    *)
(* Clients and the CLI run between any two of these steps.                 *)
(***************************************************************************)
Refused == [state |-> "refused", ahead |-> 0]
Queued(n) == [state |-> "queued", ahead |-> n]
Taken == [state |-> "taken", ahead |-> 0]
Dropped == [state |-> "dropped", ahead |-> 0]

\* the handler's request after the server is dropped with the process
Drop(sig) == IF sig.state = "queued" THEN Dropped ELSE sig

\* the handler's request after a request before it is taken
Advance(sig) == IF sig.state = "queued" THEN Queued(sig.ahead - 1) ELSE sig

\* Commands::run, ctrlc::set_handler
SetHandler ==
    /\ daemon = "Off"
    /\ daemon' = "Installed"
    /\ UNCHANGED <<file, cli, invocations, rival,
                   caddyfile, caddy, held, killed, next_pid,
                   pending, last, signal>>

\* the daemon holds the control address
Holding == daemon \in {"Listening", "Running", "Handling"}

\* the second `run` holds the control address
RivalOwns == rival.state \in {"Bound", "Running"}

\* start_server, Server::http(ADDR).unwrap(): the address is bound, or it is
\* in use, by the second `run` or by another program, and unwrap panics
Bind ==
    /\ daemon = "Installed"
    /\ \E bound \in IF RivalOwns THEN {FALSE} ELSE BOOLEAN :
         daemon' = IF bound THEN "Listening" ELSE "Aborted"
    /\ UNCHANGED <<file, cli, invocations, rival,
                   caddyfile, caddy, held, killed, next_pid,
                   pending, last, signal>>

\* start_server, `self.start_proxy()` before the loop; a panic ends the
\* process and drops the server with the requests the listener holds
StartProxy ==
    /\ daemon = "Listening"
    /\ \E order \in Perms(DOMAIN get(file).records),
          spawn_ok \in SUBSET DOMAIN get(file).records,
          net \in BOOLEAN, caddy_ok \in BOOLEAN :
         LET out == start_proxy(file, caddyfile, killed, order, spawn_ok, net,
                                caddy_ok, next_pid)
         IN  /\ next_pid + Len(out.held) - 1 <= MaxPid
             /\ daemon' = IF out.panic THEN "Aborted" ELSE "Running"
             /\ caddyfile' = out.caddyfile
             /\ caddy' = out.caddy
             /\ held' = out.held
             /\ next_pid' = next_pid + Len(out.held)
             /\ last' = Did([method |-> "", url |-> "run"], "", out.steps,
                            IF out.panic THEN pending ELSE 0)
             /\ pending' = IF out.panic THEN 0 ELSE pending
             /\ signal' = IF out.panic THEN Drop(signal) ELSE signal
    /\ UNCHANGED <<file, cli, invocations, rival,
                   killed>>

\* a client connects to the bound address, whatever the main thread is at
Connect ==
    /\ daemon \in {"Listening", "Running", "Handling"}
    /\ pending < MaxQueue
    /\ pending' = pending + 1
    /\ UNCHANGED <<file, cli, invocations, rival,
                   daemon, caddyfile, caddy, held, killed, next_pid,
                   last, signal>>

\* the handler thread calling quit on the helpers itself
Interrupt_quits_directly ==
    /\ signal = NoSignal
    /\ daemon \in {"Listening", "Running", "Handling"}
    /\ signal' = Taken
    /\ held' = <<>>
    /\ killed' = killed \cup Pids(held)
    /\ caddy' = "off"
    /\ UNCHANGED <<file, cli, invocations, rival,
                   daemon, caddyfile, next_pid, pending, last>>

\* the interrupt is delivered and the handler thread runs Commands::stop: a
\* blocking GET /quit to ADDR with expect.  Before the server is bound the
\* connection is refused and expect panics: the handler thread ends, or the
\* process does where panics abort.  The model delivers one interrupt.
Interrupt ==
    /\ signal = NoSignal
    /\ daemon \in {"Installed", "Listening", "Running", "Handling"}
    /\ IF daemon = "Installed"
       THEN /\ signal' = Refused
            /\ \E unwind \in BOOLEAN :
                 daemon' = IF unwind THEN daemon ELSE "Aborted"
       ELSE /\ signal' = Queued(pending)
            /\ daemon' = daemon
    /\ UNCHANGED <<file, cli, invocations, rival,
                   caddyfile, caddy, held, killed, next_pid,
                   pending, last>>

\* start_server, `for request in server.incoming_requests()`: the next
\* request in the order of arrival, the handler's GET /quit when it is first
Take ==
    /\ daemon = "Running"
    /\ daemon' = "Handling"
    /\ IF signal.state = "queued" /\ signal.ahead = 0
       THEN /\ last' = Did([method |-> "GET", url |-> "/quit"], "", <<>>, 0)
            /\ signal' = Taken
            /\ pending' = pending
       ELSE /\ pending > 0
            /\ \E request \in Requests : last' = Did(request, "", <<>>, 0)
            /\ signal' = Advance(signal)
            /\ pending' = pending - 1
    /\ UNCHANGED <<file, cli, invocations, rival,
                   caddyfile, caddy, held, killed, next_pid>>

\* the loop body for the request taken, not a GET
HandleNotGet ==
    /\ ~is_get(last.request)
    /\ daemon' = "Running"
    /\ last' = Did(last.request, "405", <<>>, 0)
    /\ UNCHANGED <<file, cli, invocations, rival,
                   caddyfile, caddy, held, killed, next_pid,
                   pending, signal>>

\* the loop body for the request taken, GET /restart
HandleRestart ==
    /\ is_get(last.request)
    /\ last.request.url = "/restart"
    /\ \E order \in Perms(DOMAIN get(file).records),
          spawn_ok \in SUBSET DOMAIN get(file).records,
          net \in BOOLEAN, caddy_ok \in BOOLEAN :
         LET config == get(file)
             out    == restart_proxy(held, config, caddyfile, caddy, killed,
                                     order, spawn_ok, net, caddy_ok, next_pid)
             fresh  == Cardinality(Pids(out.held) \ Pids(held))
         IN  /\ next_pid + fresh - 1 <= MaxPid
             /\ daemon' = IF out.panic THEN "Aborted" ELSE "Running"
             /\ caddyfile' = out.caddyfile
             /\ caddy' = out.caddy
             /\ held' = out.held
             /\ killed' = out.killed
             /\ next_pid' = next_pid + fresh
             /\ last' = Did(last.request, IF out.panic THEN "" ELSE "200 ok",
                            out.steps, IF out.panic THEN pending ELSE 0)
             /\ pending' = IF out.panic THEN 0 ELSE pending
             /\ signal' = IF out.panic THEN Drop(signal) ELSE signal
    /\ UNCHANGED <<file, cli, invocations, rival>>

\* the loop body for the request taken, GET /quit
HandleQuit ==
    /\ is_get(last.request)
    /\ last.request.url = "/quit"
    /\ \E caddy_ok \in BOOLEAN :
         LET out == quit(held, caddyfile, caddy, killed, caddy_ok)
         IN  /\ daemon' = IF out.panic THEN "Aborted" ELSE "Stopped"
             /\ caddy' = out.caddy
             /\ held' = out.held
             /\ killed' = out.killed
             /\ last' = Did(last.request, "", out.steps, pending)
    /\ pending' = 0
    /\ signal' = Drop(signal)
    /\ UNCHANGED <<file, cli, invocations, rival,
                   caddyfile, next_pid>>

\* the loop body for the request taken, a GET of any other url
HandleOther ==
    /\ is_get(last.request)
    /\ last.request.url \notin {"/restart", "/quit"}
    /\ daemon' = "Running"
    /\ last' = Did(last.request, "200 ok", <<>>, 0)
    /\ UNCHANGED <<file, cli, invocations, rival,
                   caddyfile, caddy, held, killed, next_pid,
                   pending, signal>>

\* start_server, the loop body for the request taken
Handle ==
    /\ daemon = "Handling"
    /\ \/ HandleNotGet
       \/ HandleRestart
       \/ HandleQuit
       \/ HandleOther

NextSignal ==
    \/ SetHandler
    \/ Bind
    \/ StartProxy
    \/ Connect
    \/ Interrupt
    \/ Take
    \/ Handle
    \/ CmdAdd(DaemonBatches)
    \/ CmdExit

SpecSignal == Init /\ [][NextSignal]_vars

\* the main thread goes on whenever it can; clients, the CLI and the
\* interrupt come when they come
FairSignal ==
    /\ SpecSignal
    /\ WF_vars(Bind)
    /\ WF_vars(StartProxy)
    /\ WF_vars(Take)
    /\ WF_vars(Handle)
(***************************************************************************)
(* command.rs: a second `run` beside the daemon, up to the loop it enters  *)
(* when it has the address.                                                *)
(***************************************************************************)
\* Commands::run of the second process, ctrlc::set_handler
RivalSetHandler ==
    /\ rival.state = "Off"
    /\ rival' = [rival EXCEPT !.state = "Installed"]
    /\ UNCHANGED <<file, cli, daemon, caddyfile, caddy, held, killed, next_pid,
                   pending, last, signal, invocations>>

\* the bind of the second process succeeding beside the listener of the first
RivalBind_shares_address ==
    /\ rival.state = "Installed"
    /\ rival' = [rival EXCEPT !.state = "Bound"]
    /\ UNCHANGED <<file, cli, daemon, caddyfile, caddy, held, killed, next_pid,
                   pending, last, signal, invocations>>

\* start_server of the second process, Server::http(ADDR).unwrap(): the
\* address is in use when the daemon holds it, and unwrap panics
RivalBind ==
    /\ rival.state = "Installed"
    /\ \E bound \in IF Holding THEN {FALSE} ELSE BOOLEAN :
         rival' = [rival EXCEPT !.state = IF bound THEN "Bound" ELSE "Refused"]
    /\ UNCHANGED <<file, cli, daemon, caddyfile, caddy, held, killed, next_pid,
                   pending, last, signal, invocations>>

\* start_server of the second process, `self.start_proxy()`
RivalStartProxy ==
    /\ rival.state = "Bound"
    /\ \E order \in Perms(DOMAIN get(file).records),
          spawn_ok \in SUBSET DOMAIN get(file).records,
          net \in BOOLEAN, caddy_ok \in BOOLEAN :
         LET out == start_proxy(file, caddyfile, killed, order, spawn_ok, net,
                                caddy_ok, next_pid)
         IN  /\ next_pid + Len(out.held) - 1 <= MaxPid
             /\ rival' = [state |-> IF out.panic THEN "Aborted" ELSE "Running",
                          held |-> out.held]
             /\ caddyfile' = out.caddyfile
             /\ caddy' = IF out.caddy = "running" THEN "running" ELSE caddy
             /\ next_pid' = next_pid + Len(out.held)
    /\ UNCHANGED <<file, cli, daemon, held, killed, pending, last, signal,
                   invocations>>

NextRival ==
    \/ SetHandler
    \/ Bind
    \/ StartProxy
    \/ Arrive
    \/ Serve
    \/ RivalSetHandler
    \/ RivalBind
    \/ RivalStartProxy
    \/ CmdAdd(DaemonBatches)
    \/ CmdExit

SpecRival == Init /\ [][NextRival]_vars

(***************************************************************************)
(* command.rs: add run by several CLI processes.  Commands::add_proxies    *)
(* loads the configuration with DotLocalConfig::get and                    *)
(* DotLocalConfig::add_proxies saves it after its loop; other processes    *)
(* run between the two.  Each process runs once.                           *)
(***************************************************************************)
RaceBatches ==
    { << <<"a.local", ":", "1">> >>,
      << <<"a.local", ":", "2">> >>,
      << <<"a.local", "/", "x", ":", "1">> >>,
      << <<"b.local", ":", "1">> >> }

\* the processes that have saved
Saved == {q \in Procs : invocations[q].pc = "saved"}

\* Commands::add_proxies, `let mut config = DotLocalConfig::get();`
Load(p) ==
    /\ invocations[p].pc = "idle"
    /\ \E proxies \in RaceBatches :
         invocations' = [invocations EXCEPT ![p] =
             [pc |-> "loaded", proxies |-> proxies, seen |-> file,
              after |-> Saved, turn |-> 0]]
    /\ UNCHANGED <<file, cli, daemon, caddyfile, caddy, held, killed, next_pid,
                   pending, last, signal, rival>>

\* the save taking the file as it is now, as under a lock held from the load
Save_reloads(p) ==
    /\ invocations[p].pc = "loaded"
    /\ LET r == add_proxies(get(file), file, invocations[p].proxies)
       IN  file' = IF r.panic THEN file ELSE r.file
    /\ invocations' = [invocations EXCEPT ![p].pc = "saved",
                                          ![p].turn = Cardinality(Saved) + 1]
    /\ UNCHANGED <<cli, daemon, caddyfile, caddy, held, killed, next_pid,
                   pending, last, signal, rival>>

\* Commands::add_proxies, `config.add_proxies(proxies)`: the loop on the
\* configuration loaded, then save; a panic in the loop leaves the file
Save(p) ==
    /\ invocations[p].pc = "loaded"
    /\ LET seen == invocations[p].seen
           r    == add_proxies(get(seen), seen, invocations[p].proxies)
       IN  file' = IF r.panic THEN file ELSE r.file
    /\ invocations' = [invocations EXCEPT ![p].pc = "saved",
                                          ![p].turn = Cardinality(Saved) + 1]
    /\ UNCHANGED <<cli, daemon, caddyfile, caddy, held, killed, next_pid,
                   pending, last, signal, rival>>

NextRace ==
    \/ \E p \in Procs : Load(p)
    \/ \E p \in Procs : Save(p)

SpecRace == Init /\ [][NextRace]_vars

(***************************************************************************)
(* main.rs: the CLI commands on the configuration.                         *)
(***************************************************************************)
\* Commands::Add arm of main
MainAdd(B) ==
    /\ cli = Idle
    /\ UNCHANGED dvars
    /\ \E proxies \in B :
         LET r == main_add_proxies(file, proxies)
         IN  /\ file' = r.file
             /\ cli' = [op |-> "add", proxies |-> proxies, pre |-> file,
                        panic |-> r.panic]

\* Commands::Remove arm of main
MainRemove(B) ==
    /\ cli = Idle
    /\ UNCHANGED dvars
    /\ \E proxies \in B :
         LET r == main_remove_proxies(file, proxies)
         IN  /\ file' = r.file
             /\ cli' = [op |-> "remove", proxies |-> proxies, pre |-> file,
                        panic |-> r.panic]

\* Commands::RemoveAll arm of main
MainRemoveAll ==
    /\ cli = Idle
    /\ UNCHANGED dvars
    /\ file' = main_remove_all_proxies(file)
    /\ cli' = [op |-> "remove-all", proxies |-> <<>>, pre |-> file,
               panic |-> FALSE]

NextMain ==
    \/ MainAdd(Batches)
    \/ MainRemove(Batches)
    \/ MainRemoveAll
    \/ CmdAccess
    \/ CmdHttps
    \/ CmdExit

SpecMain == Init /\ [][NextMain]_vars
(***************************************************************************)
(* Properties of the registry commands.                                    *)
(***************************************************************************)
\* the records before and after the command the CLI process has run
PreRecords == get(cli.pre).records
NowRecords == get(file).records

\* the CLI process has run op on the one entry it was given, without panic
RanOne(op) == cli # Idle /\ cli.op = op /\ ~cli.panic /\ Len(cli.proxies) = 1

\* that entry, parsed
TheEntry == parse_proxy_entry(cli.proxies[1])

\* C1: full removal.  When remove is given d/x:p and the record of d has
\* defaultPort -1 and (/x, p) as its only paths entry, the persisted
\* configuration has no record for d afterwards.
C1_FullRemoval ==
    (/\ RanOne("remove")
     /\ ~TheEntry.path.none
     /\ TheEntry.domain \in DOMAIN PreRecords
     /\ PreRecords[TheEntry.domain].port = -1
     /\ PreRecords[TheEntry.domain].paths =
            <<<<"/" \o TheEntry.path.rest, TheEntry.port>>>>)
    => TheEntry.domain \notin DOMAIN NowRecords

\* C2: default-port removal.  When remove is given the path-less d:p and the
\* record of d has defaultPort p, the persisted record keeps its paths and has
\* defaultPort -1 if paths was non-empty, and is deleted if paths was empty.
C2_DefaultRemovalDemotes ==
    (/\ RanOne("remove")
     /\ TheEntry.path.none
     /\ TheEntry.domain \in DOMAIN PreRecords
     /\ PreRecords[TheEntry.domain].port = TheEntry.port)
    => IF PreRecords[TheEntry.domain].paths # <<>>
       THEN /\ TheEntry.domain \in DOMAIN NowRecords
            /\ NowRecords[TheEntry.domain].port = -1
            /\ NowRecords[TheEntry.domain].paths =
                   PreRecords[TheEntry.domain].paths
       ELSE TheEntry.domain \notin DOMAIN NowRecords

\* C3: no persisted record has defaultPort -1 and empty paths.
C3_NoEmptyRecord ==
    \A d \in DOMAIN NowRecords :
        ~(NowRecords[d].port = -1 /\ NowRecords[d].paths = <<>>)

\* C4: after remove-all the persisted records mapping is empty and the two
\* global flags are what they were.
C4_RemoveAllEmpties ==
    (cli # Idle /\ cli.op = "remove-all")
    => /\ ~file.absent
       /\ DOMAIN NowRecords = {}
       /\ get(file).automatic_https_redirect =
              get(cli.pre).automatic_https_redirect
       /\ get(file).lan_enabled = get(cli.pre).lan_enabled

\* the batch the CLI process was given holds only the path-less entry e
OnlyPathless(e) ==
    /\ Len(cli.proxies) >= 1
    /\ \A i \in 1..Len(cli.proxies) : cli.proxies[i] = e
    /\ ~parse_proxy_entry(e).panic
    /\ parse_proxy_entry(e).path.none

\* C5: idempotent default-route add.  After add has run on a path-less entry
\* d:p, running add on it once more leaves the persisted records as they are;
\* and a batch that names the entry twice persists what naming it once does.
C5_IdempotentDefaultAdd ==
    \A e \in Entries :
        (cli # Idle /\ cli.op = "add" /\ OnlyPathless(e))
        => /\ get(add_proxies(get(file), file, <<e>>).file).records = NowRecords
           /\ NowRecords =
                  get(add_proxies(get(cli.pre), cli.pre, <<e>>).file).records

\* add has run twice on a.local:1 in one batch, on a record that had paths
C5_Witness ==
    /\ cli # Idle /\ cli.op = "add"
    /\ cli.proxies = << <<"a.local", ":", "1">>, <<"a.local", ":", "1">> >>
    /\ "a.local" \in DOMAIN PreRecords
    /\ PreRecords["a.local"].port = -1
    /\ PreRecords["a.local"].paths # <<>>
    /\ NowRecords["a.local"].port = 1

\* no prefix occurs twice in paths
UniquePrefixes(paths) ==
    \A i, j \in 1..Len(paths) : paths[i][1] = paths[j][1] => i = j

\* C6: path add overwrites the same path only.  After add has run on d/x:q
\* for a domain that had a record, paths is the previous paths without the
\* entries of prefix /x, in their previous order, followed by (/x, q); and in
\* every persisted record each prefix occurs at most once.
C6_PathAddOverwrites ==
    /\ (/\ RanOne("add")
        /\ ~TheEntry.path.none
        /\ TheEntry.domain \in DOMAIN PreRecords)
       => LET prefix == "/" \o TheEntry.path.rest
              old    == PreRecords[TheEntry.domain].paths
              paths  == NowRecords[TheEntry.domain].paths
          IN  /\ paths # <<>>
              /\ paths[Len(paths)] = <<prefix, TheEntry.port>>
              /\ SubSeq(paths, 1, Len(paths) - 1) =
                     SelectSeq(old, LAMBDA it : it[1] # prefix)
    /\ \A d \in DOMAIN NowRecords : UniquePrefixes(NowRecords[d].paths)

\* add of a.local/x:2 has moved /x behind /y and given it port 2
C6_Witness ==
    /\ RanOne("add")
    /\ cli.proxies[1] = <<"a.local", "/", "x", ":", "2">>
    /\ "a.local" \in DOMAIN PreRecords
    /\ PreRecords["a.local"].paths = << <<"/x", 1>>, <<"/y", 2>> >>
    /\ NowRecords["a.local"].paths = << <<"/y", 2>>, <<"/x", 2>> >>
(***************************************************************************)
(* Properties of the daemon.                                               *)
(***************************************************************************)
GetQuit == [method |-> "GET", url |-> "/quit"]
GetRestart == [method |-> "GET", url |-> "/restart"]

\* C7: every GET /quit the daemon has handled was answered 200 "ok".
C7_QuitAnswered ==
    (daemon = "Stopped" /\ last.request = GetQuit) => last.response = "200 ok"

\* C8: the step that handles GET /quit sends kill to every helper held,
\* leaves the held set empty, issues the proxy's stop verb and ends the loop;
\* once the daemon is Stopped nothing is dispatched any more.
C8_QuitStopsEverything ==
    [][/\ (daemon = "Running" /\ daemon' = "Stopped")
          => /\ last'.request = GetQuit
             /\ Pids(held) \subseteq killed'
             /\ held' = <<>>
             /\ last'.steps = <<"kill helpers", "caddy stop">>
             /\ caddy' = "off"
       /\ daemon = "Stopped" => UNCHANGED dvars]_vars

\* /quit was handled while helpers were held and a request was waiting
C8_Witness ==
    /\ daemon = "Stopped"
    /\ last.request = GetQuit
    /\ last.undispatched > 0
    /\ killed # {}
    /\ held = <<>>
    /\ caddy = "off"

\* C9: a request that is not a GET is answered 405 and the step that handles
\* it changes neither the held helpers, the kills sent, the proxy process,
\* the Caddyfile nor the state of the daemon.
C9_NonGetRejected ==
    [][(pending' < pending /\ last'.request.method # "GET")
       => /\ last'.response = "405"
          /\ pending' = pending - 1
          /\ UNCHANGED <<daemon, caddyfile, caddy, held, killed, next_pid>>]_vars

\* POST /restart was answered 405 by a daemon that holds helpers
C9_Witness ==
    /\ last.request = [method |-> "POST", url |-> "/restart"]
    /\ last.response = "405"
    /\ daemon = "Running"
    /\ held # <<>>

\* the step completes the handling of GET /restart
Restarted ==
    pending' < pending /\ last'.request = GetRestart /\ daemon' = "Running"

\* the held set after the step is what the step spawned from the file: fresh
\* pids, one handle per domain at most, domains of the file only, and every
\* handle held before was sent kill and is gone
HeldIsFresh ==
    /\ Pids(held') \cap Pids(held) = {}
    /\ Pids(held) \subseteq killed'
    /\ \A i \in 1..Len(held') :
         /\ held'[i].pid >= next_pid
         /\ held'[i].domain \in DOMAIN get(file).records
         /\ \A j \in 1..Len(held') : held'[i].domain = held'[j].domain => i = j

\* the Caddyfile has a stanza for domain d
HasStanza(cf, d) ==
    /\ ~cf.absent
    /\ \E i \in 1..Len(cf.lines) :
         cf.lines[i] \in {d \o " {", "http://" \o d \o " https://" \o d \o " {"}

\* the CLI process has run remove d:p on a record d with defaultPort p and no
\* paths: the command that removes the domain
RemovedDomain ==
    /\ RanOne("remove")
    /\ TheEntry.path.none
    /\ TheEntry.domain \in DOMAIN PreRecords
    /\ PreRecords[TheEntry.domain].port = TheEntry.port
    /\ PreRecords[TheEntry.domain].paths = <<>>

\* C10: after GET /restart is handled the held set is the set spawned from
\* the file during the request and no earlier handle remains; a domain the CLI
\* has removed has no helper and no stanza, a domain it has added has a stanza.
C10_RestartReflectsCommands ==
    [][Restarted
       => /\ HeldIsFresh
          /\ RemovedDomain
             => /\ \A i \in 1..Len(held') : held'[i].domain # TheEntry.domain
                /\ ~HasStanza(caddyfile', TheEntry.domain)
          /\ RanOne("add") => HasStanza(caddyfile', TheEntry.domain)]_vars

\* C10, the part that does not depend on what remove persists
C10_HeldIsFresh == [][Restarted => HeldIsFresh]_vars
\* C11: while GET /restart is handled the Caddyfile is rewritten, then the
\* reload verb is issued, then the helpers held are stopped, then fresh
\* helpers are spawned.
C11_RestartStepOrder ==
    [][Restarted
       => last'.steps = <<"write Caddyfile", "caddy reload", "kill helpers",
                          "spawn helpers">>]_vars

\* the texts update_caddyfile can write for the configuration in the file
Generations ==
    {update_caddyfile(get(file), o, TRUE).content :
        o \in Perms(DOMAIN get(file).records)}

\* C14: a /restart that finds the Caddyfile generated from the configuration
\* that is in the file now writes the same text again.
C14_GeneratorDeterminism ==
    [][(Restarted /\ ~caddyfile.absent /\ caddyfile.lines \in Generations)
       => caddyfile' = caddyfile]_vars

\* the step writes the Caddyfile (daemon start or /restart)
Generated ==
    /\ last' # last
    /\ last'.steps # <<>>
    /\ last'.steps[1] = "write Caddyfile"

\* the lines that open the stanza of domain d
Openers(d) == {d \o " {", "http://" \o d \o " https://" \o d \o " {"}

\* the positions of the lines of text that are in the set S
Positions(text, S) == {i \in 1..Len(text) : text[i] \in S}

\* C15: the Caddyfile written for a configuration without records is one
\* empty line, never an empty file; written for n >= 1 records it holds n
\* stanzas, one for each record.
C15_ZeroRecordGeneration ==
    [][Generated
       => LET domains == DOMAIN get(file).records
              text    == caddyfile'.lines
          IN  /\ ~caddyfile'.absent
              /\ text # <<>>
              /\ domains = {} => text = <<"">>
              /\ domains # {}
                 => /\ \A d \in domains :
                         Cardinality(Positions(text, Openers(d))) = 1
                    /\ Cardinality(Positions(text, {"}"}))
                         = Cardinality(domains)
                    /\ Cardinality(Positions(text,
                           UNION {Openers(d) : d \in domains}))
                         = Cardinality(domains)
                    /\ Positions(text, {""}) = {}
                    /\ text[Len(text)] = "}"]_vars

\* /restart wrote the Caddyfile of a configuration without records
C15_Witness ==
    /\ daemon = "Running"
    /\ last.request = GetRestart
    /\ get(file).records = EmptyMap
    /\ caddyfile = Written(<<"">>)

\* the domains of a Vec<Child>, in its order
Domains(processes) == [i \in 1..Len(processes) |-> processes[i].domain]

\* C17: whichever helpers fail to spawn, spawn_dns_proxies goes through every
\* domain and returns the helpers that were spawned, one for a domain, and
\* neither the start nor the restart of the daemon panics.
C17_SpawnFailureNotFatal ==
    \A order \in Perms(DOMAIN get(file).records),
       spawn_ok \in SUBSET DOMAIN get(file).records :
        LET config  == get(file)
            spawned == SelectSeq(order, LAMBDA d : d \in spawn_ok)
            sp      == spawn_dns_proxies(config, order, spawn_ok, TRUE,
                                         next_pid)
            started == start_proxy(file, caddyfile, killed, order, spawn_ok,
                                   TRUE, TRUE, next_pid)
            again   == restart_proxy(held, config, caddyfile, caddy, killed,
                                     order, spawn_ok, TRUE, TRUE, next_pid)
        IN  /\ ~sp.panic /\ Domains(sp.processes) = spawned
            /\ ~started.panic /\ Domains(started.held) = spawned
            /\ ~again.panic /\ Domains(again.held) = spawned

\* after a /restart the Caddyfile has two stanzas and one helper is held:
\* one spawn failed, the other was made, the daemon runs
C17_Witness ==
    /\ daemon = "Running"
    /\ last.request = GetRestart
    /\ Cardinality(Positions(caddyfile.lines, {"}"})) = 2
    /\ Len(held) = 1

\* C19: the start of the daemon writes the Caddyfile from the configuration
\* in the file, then launches the proxy, then spawns the helpers; a request
\* is dispatched only by a daemon that has done all three; when the launch
\* of the proxy fails the daemon aborts and no helper was spawned.
C19_StartupStepOrder ==
    [][/\ (last' # last /\ last'.request.url = "run")
          => /\ daemon' = "Running"
                => /\ last'.steps = <<"write Caddyfile", "caddy start",
                                      "spawn helpers">>
                   /\ ~caddyfile'.absent
                   /\ caddyfile'.lines \in Generations
                   /\ caddy' = "running"
             /\ caddy' # "running"
                => /\ daemon' = "Aborted"
                   /\ held' = <<>>
                   /\ next_pid' = next_pid
       /\ (last' # last /\ last'.request.url # "run")
          => /\ daemon = "Running"
             /\ caddy = "running"
             /\ ~caddyfile.absent]_vars

\* the daemon started with a helper and has dispatched a request
C19_Witness ==
    /\ daemon = "Running"
    /\ last.request = [method |-> "GET", url |-> "/"]
    /\ last.response = "200 ok"
    /\ held # <<>>
    /\ killed = {}
\* the entry has no ':' separator
NoSeparator(e) == \A i \in 1..Len(e) : e[i] # ":"

\* the pieces of the entry after its first ':' and before the next one
PortText(e) ==
    LET i    == IndexOf(e, ":", 1)
        rest == SubSeq(e, i + 1, Len(e))
        j    == IndexOf(rest, ":", 1)
    IN  IF j = 0 THEN rest ELSE SubSeq(rest, 1, j - 1)

\* the text is an integer: digits, after a sign or not
IsInteger(t) ==
    LET body == IF t # <<>> /\ t[1] \in {"-", "+"} THEN Tail(t) ELSE t
    IN  body # <<>> /\ \A i \in 1..Len(body) : body[i] \in Digits

Malformed(e) == NoSeparator(e) \/ ~IsInteger(PortText(e))

\* C16: an add or a remove whose batch holds a malformed entry aborts and the
\* file is what it was before the command, whatever came before the entry.
C16_InputErrorsAtomic ==
    (/\ cli # Idle
     /\ cli.op \in {"add", "remove"}
     /\ \E i \in 1..Len(cli.proxies) : Malformed(cli.proxies[i]))
    => cli.panic /\ file = cli.pre

\* add ran on a batch whose first entry alone would have created the file
\* and whose second entry has a port text that is no integer
C16_Witness ==
    /\ cli # Idle
    /\ cli.op = "add"
    /\ cli.proxies = << <<"a.local", ":", "1">>, <<"a.local", ":", "x">> >>
    /\ cli.panic
    /\ cli.pre = NoFile
    /\ file = NoFile

\* C18: every key of the records in the file is the domain of its record.
C18_KeyIsDomain ==
    \A d \in DOMAIN NowRecords : NowRecords[d].domain = d

\* remove ran on a file with two records, one of them made by a path entry
C18_Witness ==
    /\ cli # Idle
    /\ cli.op = "remove"
    /\ DOMAIN NowRecords = {"a.local", "b.local"}
    /\ NowRecords["b.local"].paths # <<>>
\* the lines the stanza of a record has after its opening line: the root
\* line when the record has a default port, the path lines in stored order
Routes(record, ip) ==
    (IF record.port # -1
     THEN <<"\treverse_proxy " \o ip \o ":" \o ToString(record.port)>>
     ELSE <<>>)
    \o [i \in 1..Len(record.paths) |->
          "\treverse_proxy " \o record.paths[i][1] \o " " \o ip \o ":"
          \o ToString(record.paths[i][2])]

\* C20: in the Caddyfile written for the file, the stanza of every record is
\* its opening line, the root line if and only if the default port is not
\* -1, the path lines in the order of the record's paths, and the closing
\* line.
C20_RootRouteEmission ==
    [][Generated
       => \A d \in DOMAIN get(file).records :
            LET config == get(file)
                text   == caddyfile'.lines
                ip     == get_ip(config.lan_enabled, TRUE).ip
                routes == Routes(config.records[d], ip)
            IN  \E i \in Positions(text, Openers(d)) :
                  /\ i + Len(routes) + 1 <= Len(text)
                  /\ SubSeq(text, i + 1, i + Len(routes)) = routes
                  /\ text[i + Len(routes) + 1] = "}"]_vars
\* the daemon has ended: by the shutdown of quit, with no helper held and
\* the proxy stopped, or by a panic
Ended ==
    \/ daemon = "Stopped" /\ held = <<>> /\ caddy = "off"
    \/ daemon = "Aborted"

\* C12: an interrupt delivered to a daemon that has set its handler, during
\* its startup, while it waits or while it handles a request, leads to the
\* shutdown of /quit: the helpers killed, the proxy stopped, the loop left.
C12_InterruptShutsDown == (signal # NoSignal) ~> Ended

\* C12, for the interrupts delivered after the server is bound
C12_QueuedInterruptShutsDown == (signal.state = "queued") ~> Ended

\* the step changes the supervised processes
Mutates == held' # held \/ killed' # killed \/ caddy' # caddy

\* the step is one of the handler thread of the interrupt
HandlerStep == signal = NoSignal /\ signal' # NoSignal

\* the step takes a request from the listener
Takes ==
    /\ daemon' \notin {"Stopped", "Aborted"}
    /\ \/ pending' < pending
       \/ signal.state = "queued" /\ signal'.state = "taken"

\* C13: a request is taken from the listener only by a loop that handles
\* none, so that one request at most is in flight; the supervised processes
\* are changed only by a step of the main thread, at start or while it
\* handles the request taken, never by the step of the interrupt handler or
\* of a CLI command.
C13_Serialized ==
    [][/\ Takes => daemon = "Running" /\ daemon' = "Handling"
       /\ Mutates
          => /\ daemon \in {"Listening", "Handling"}
             /\ daemon' \in {"Running", "Stopped", "Aborted"}
             /\ ~HandlerStep
             /\ cli' = cli]_vars

\* GET /restart is in flight with helpers held while a request waits in the
\* listener, the interrupt handler has sent its request and a CLI command
\* has run
C13_Witness ==
    /\ daemon = "Handling"
    /\ last.request = GetRestart
    /\ held # <<>>
    /\ pending > 0
    /\ signal.state = "queued"
    /\ cli # Idle
(***************************************************************************)
(* Frame properties of add and remove.                                     *)
(***************************************************************************)
\* the parsed entry e misses the records: no record of its domain, or no
\* path and another port than the default port, or a path and no paths
\* entry of that prefix and port
Miss(e, records) ==
    \/ e.domain \notin DOMAIN records
    \/ /\ e.domain \in DOMAIN records
       /\ e.path.none
       /\ e.port # records[e.domain].port
    \/ /\ e.domain \in DOMAIN records
       /\ ~e.path.none
       /\ \A i \in 1..Len(records[e.domain].paths) :
            records[e.domain].paths[i] # <<"/" \o e.path.rest, e.port>>

\* the domains the entries of the batch name
Named(proxies) ==
    {parse_proxy_entry(proxies[i]).domain : i \in 1..Len(proxies)}

\* the record of d is the same, or as absent, in both mappings
SameAt(d, before, after) ==
    /\ d \in DOMAIN before <=> d \in DOMAIN after
    /\ d \in DOMAIN before => after[d] = before[d]

C22_AddFrame ==
    /\ (RanOne("add") /\ TheEntry.domain \in DOMAIN PreRecords)
       => /\ TheEntry.domain \in DOMAIN NowRecords
          /\ ~TheEntry.path.none
             => NowRecords[TheEntry.domain].port
                  = PreRecords[TheEntry.domain].port
          /\ TheEntry.path.none
             => NowRecords[TheEntry.domain].paths
                  = PreRecords[TheEntry.domain].paths
    /\ (RanOne("add") /\ TheEntry.domain \notin DOMAIN PreRecords
                      /\ ~TheEntry.path.none)
       => /\ TheEntry.domain \in DOMAIN NowRecords
          /\ NowRecords[TheEntry.domain]
               = Record(TheEntry.domain,
                        << <<"/" \o TheEntry.path.rest, TheEntry.port>> >>, -1)
    /\ (cli # Idle /\ cli.op = "add")
       => /\ \A d \in (DOMAIN PreRecords \cup DOMAIN NowRecords)
                        \ Named(cli.proxies) :
               SameAt(d, PreRecords, NowRecords)
          /\ get(file).automatic_https_redirect
               = get(cli.pre).automatic_https_redirect
          /\ get(file).lan_enabled = get(cli.pre).lan_enabled

\* add of a.local/x:1 ran on a record of default port 1, beside a record of
\* b.local, with both flags off
C22_Witness ==
    /\ RanOne("add")
    /\ cli.proxies[1] = <<"a.local", "/", "x", ":", "1">>
    /\ DOMAIN PreRecords = {"a.local", "b.local"}
    /\ PreRecords["a.local"].port = 1
    /\ NowRecords["a.local"].port = 1
    /\ ~get(file).lan_enabled
    /\ ~get(file).automatic_https_redirect
\* the number of ':' in the entry
Colons(e) == Cardinality({i \in 1..Len(e) : e[i] = ":"})

\* C24: the entry is split once at its first ':', what follows is the port
\* text, what precedes is split once at its first '/'.  An add of one entry
\* aborts exactly when there is no ':' or the port text is no integer, so it
\* aborts when there is a second ':'; when it does not abort and there is a
\* '/', the record of the domain has the whole remainder as one prefix, at
\* the port of the entry.
C24_EntrySplitting ==
    (cli # Idle /\ cli.op = "add" /\ Len(cli.proxies) = 1)
    => LET e     == cli.proxies[1]
           i     == IndexOf(e, ":", 1)
           left  == IF i = 0 THEN e ELSE SubSeq(e, 1, i - 1)
           text  == IF i = 0 THEN <<>> ELSE SubSeq(e, i + 1, Len(e))
           j     == IndexOf(left, "/", 1)
           port  == ParseI32(Trim(text))
       IN  /\ cli.panic <=> (i = 0 \/ ~port.ok)
           /\ Colons(e) > 1 => cli.panic
           /\ (~cli.panic /\ j > 0)
              => LET domain == Join(SubSeq(left, 1, j - 1))
                     prefix == "/" \o Join(SubSeq(left, j + 1, Len(left)))
                 IN  /\ domain \in DOMAIN NowRecords
                     /\ \E k \in 1..Len(NowRecords[domain].paths) :
                          NowRecords[domain].paths[k] = <<prefix, port.val>>
\* the helpers the daemon has spawned and has not sent kill
Alive == (1..(next_pid - 1)) \ killed

\* C25: while the daemon waits for a request, every helper it has spawned
\* and not killed is held, no two helpers held are for one domain, and the
\* helpers held are no more than the records of the configuration it loaded
\* last, which are the stanzas of the Caddyfile it wrote from it.
C25_NoHelperLeak ==
    daemon = "Running"
    => /\ Alive \subseteq Pids(held)
       /\ Pids(held) \subseteq Alive
       /\ \A i, j \in 1..Len(held) :
            held[i].domain = held[j].domain => i = j
       /\ ~caddyfile.absent
       /\ Len(held) <= Cardinality(Positions(caddyfile.lines, {"}"}))

\* a /restart has replaced the helper of the start by two
C25_Witness ==
    /\ daemon = "Running"
    /\ last.request = GetRestart
    /\ killed = {1}
    /\ Pids(held) = {2, 3}
(***************************************************************************)
(* The configuration file under several CLI processes.                     *)
(***************************************************************************)
\* the file process q leaves when it saves: its entries added to what it
\* loaded
Alone(q) ==
    add_proxies(get(invocations[q].seen), invocations[q].seen,
                invocations[q].proxies).file

\* the process that saved last among the processes S, S not empty
LastOf(S) ==
    CHOOSE q \in S : \A r \in S : invocations[r].turn <= invocations[q].turn

\* the domain process p adds to
DomainOf(p) == parse_proxy_entry(invocations[p].proxies[1]).domain

\* p and q ran side by side: neither had saved when the other loaded
Overlap(p, q) ==
    /\ p # q
    /\ p \notin invocations[q].after
    /\ q \notin invocations[p].after

\* C23: the file is the save of the process that saved last, made from what
\* that process loaded, which is the save of the last process that had saved
\* by then.  So the change of a process that ran side by side with the last
\* one and saved before it is lost, and when no two processes ran side by
\* side the file has the change of every one of them.
C23_UnlockedFile ==
    /\ Saved # {} => file = Alone(LastOf(Saved))
    /\ \A q \in Procs :
         invocations[q].pc # "idle"
         => invocations[q].seen =
              IF invocations[q].after = {} THEN NoFile
              ELSE Alone(LastOf(invocations[q].after))
    /\ \A p, q \in Saved :
         (/\ q = LastOf(Saved)
          /\ Overlap(p, q)
          /\ DomainOf(p) # DomainOf(q)
          /\ DomainOf(p) \notin DOMAIN get(invocations[q].seen).records)
         => DomainOf(p) \notin DOMAIN NowRecords
    /\ (\A p, q \in Saved : ~Overlap(p, q))
       => \A p \in Saved : DomainOf(p) \in DOMAIN NowRecords

\* both processes loaded the empty file, 1 saved a.local, then 2 saved
\* b.local: the file has b.local only
C23_Witness ==
    /\ Saved = {1, 2}
    /\ Overlap(1, 2)
    /\ invocations[1].turn = 1
    /\ DomainOf(1) = "a.local"
    /\ DomainOf(2) = "b.local"
    /\ DOMAIN NowRecords = {"b.local"}
(***************************************************************************)
(* Two daemons.                                                            *)
(***************************************************************************)
\* C26: while the daemon holds the control address a second `run` gets no
\* further than its bind, where it fails: it has written no Caddyfile,
\* launched no proxy and spawned no helper, and its steps leave the
\* daemon's helpers, proxy and Caddyfile as they are; the two never hold the
\* address together.
C26_SingleDaemon ==
    [][/\ (Holding /\ rival' # rival)
          => /\ rival'.state \in {"Installed", "Refused"}
             /\ rival'.held = <<>>
             /\ UNCHANGED <<daemon, caddyfile, caddy, held, killed, next_pid,
                            pending, last>>
       /\ ~(Holding' /\ RivalOwns')
       /\ rival.state = "Refused" => rival' = rival]_vars

\* the second `run` has failed at its bind beside a daemon that holds a
\* helper
C26_Witness ==
    /\ rival.state = "Refused"
    /\ daemon = "Running"
    /\ held # <<>>
    /\ caddy = "running"
    /\ ~caddyfile.absent
====
